---- MODULE Spec2Model ----
(***************************************************************************)
(* OanTrack expense dashboard (src/app.py): a Streamlit script that is     *)
(* re-executed top to bottom on every user interaction.  The model follows *)
(* one browser session: the MongoDB collection, the st.cache_data entry of *)
(* load_data, the module-level df of the running script and what the page  *)
(* shows.                                                                  *)
(*                                                                         *)
(* Amounts are whole currency units, dates are calendar days written as    *)
(* the number YYYYMMDD, so that strftime('%Y-%m') is the number YYYYMM.    *)
(***************************************************************************)
EXTENDS Integers, Sequences, FiniteSets, TLC

VARIABLES
    store,       \* documents of collection "expense", in natural (find) order
    nextId,      \* the next ObjectId the server assigns on insert_one
    collection,  \* module-level `collection`: NoHandle until connected
    cache,       \* st.cache_data entries of load_data: [key, value, raised, age]
    df,          \* module-level `df` of the current script run
    pc,          \* where the script run is: connect, load, main, idle, stopped
    view,        \* what the last run rendered: [shown, category, month]
    notice,      \* the last st.error / st.success / exception shown
    storeCalls,  \* the collection calls issued by the last step
    journal,     \* the last successful write and the frame shown when it was issued
    submitted    \* the form submitted in the last step: its inputs, and the delete count of a remove

vars == <<store, nextId, collection, cache, df, pc, view, notice, storeCalls,
          journal, submitted>>

----------------------------------------------------------------------------
(* Bounds of the model *)

MaxAdds == 1      \* insert_one calls that succeed in one behaviour
TickStep == 30    \* time that passes in one Tick
PoolSize == 12    \* documents of the large collection (more than HeadCount)
MaxRemoves == 1   \* delete_one calls that succeed over the large collection

(* Program constants *)

TTL == 60         \* @st.cache_data(ttl=60)
HeadCount == 10   \* .head(10)

----------------------------------------------------------------------------
(* Values of document fields and of DataFrame cells *)

Num(n) == [t |-> "num", v |-> n]          \* a numeric amount
Day(d) == [t |-> "date", v |-> d]         \* a datetime / parseable date
Text == [t |-> "text", v |-> 0]           \* a string that is neither
NoField == [t |-> "absent", v |-> 0]      \* the document has no such field
NaN == [t |-> "nan", v |-> 0]             \* DataFrame cell: float NaN
NaT == [t |-> "nat", v |-> 0]             \* DataFrame cell: pd.NaT
Ts(d) == [t |-> "ts", v |-> d]            \* DataFrame cell: Timestamp

NoCategory == "<absent>"                  \* document without "category"
NaNCategory == "<NaN>"                    \* DataFrame cell: NaN category

(* The documents the collection may hold before the session starts: written
   by this application (1, 2) or by older tools (3: no category, 4: a date
   that does not parse, 5: an amount that is not a number).  Every one of
   them carries a date field. *)
LegacyDocs ==
    << [_id |-> 1, merchant |-> "Metro", category |-> "Groceries",
        amount |-> Num(1), date |-> Day(20240110)],
       [_id |-> 2, merchant |-> "Esso", category |-> "Transport",
        amount |-> Num(2), date |-> Day(20240205)],
       [_id |-> 3, merchant |-> "Ikea", category |-> NoCategory,
        amount |-> Num(2), date |-> Day(20240120)],
       [_id |-> 4, merchant |-> "Uber", category |-> "Transport",
        amount |-> Num(1), date |-> Text],
       [_id |-> 5, merchant |-> "", category |-> "Groceries",
        amount |-> Text, date |-> Day(20240205)] >>

LegacyIds == 1..Len(LegacyDocs)

(* A collection filled in part by other tools: a document without a date
   (100) and one without an amount (101), beside one of this application *)
ForeignDocs ==
    << [_id |-> 100, merchant |-> "Costco", category |-> "Groceries",
        amount |-> Num(2), date |-> NoField],
       [_id |-> 1, merchant |-> "Metro", category |-> "Groceries",
        amount |-> Num(1), date |-> Day(20240110)],
       [_id |-> 101, merchant |-> "Shell", category |-> "Transport",
        amount |-> NoField, date |-> Day(20240205)] >>

(* The documents of LegacyDocs whose _id is in ids, in order *)
SubSeq_ids(ids) == SelectSeq(LegacyDocs, LAMBDA d : d._id \in ids)

(* A collection with more documents than the remove form lists, stored
   oldest first: six of January and the rest of February, in two categories *)
ManyDocs ==
    [i \in 1..PoolSize |->
        [_id |-> 200 + i, merchant |-> "Metro",
         category |-> IF i % 2 = 0 THEN "Groceries" ELSE "Transport",
         amount |-> Num(1),
         date |-> Day(IF i <= 6 THEN 20240100 + i ELSE 20240200 + i)]]

(* Form inputs *)
MerchantInputs == {"", "Tim Hortons"}
CategoryInputs == {"Groceries", "Food & Beverage"}
AmountInputs == {0, 3}                    \* number_input(min_value=0.0)
DateInputs == {20240203}

----------------------------------------------------------------------------
(* Sequence helpers *)

Ids(s) == {s[i]._id : i \in 1..Len(s)}

EmptyDF == << >>                          \* pd.DataFrame()

----------------------------------------------------------------------------
(* Database connection: get_database_connection *)

NoHandle == [kind |-> "none", name |-> ""]
CollectionHandle == [kind |-> "handle", name |-> "oantracker.expense"]

(* The argument load_data is called with at the call site, which
   st.cache_data uses as the key of the entry *)
LoadDataArg == collection

----------------------------------------------------------------------------
(* load_data: fetch and normalisation *)

HasColumn(raw, f) == \E i \in 1..Len(raw) : raw[i][f] # NoField
HasCategoryColumn(raw) == \E i \in 1..Len(raw) : raw[i].category # NoCategory

(* data["amount"].astype(float) raises: no document has the field
   (KeyError) or some amount is not a number (ValueError) *)
AmountRaises(raw) ==
    \/ ~HasColumn(raw, "amount")
    \/ \E i \in 1..Len(raw) : raw[i].amount.t = "text"

AsFloat(a) == IF a.t = "num" THEN a ELSE NaN

(* pd.to_datetime(..., errors="coerce") *)
ToDatetime(x) == IF x.t = "date" THEN Ts(x.v) ELSE NaT

BackfillCategory(raw, d) ==
    IF ~HasCategoryColumn(raw) THEN "Uncategorized"
    ELSE IF d.category = NoCategory THEN NaNCategory ELSE d.category

DateColumn(raw, d) ==
    IF HasColumn(raw, "date") THEN ToDatetime(d.date) ELSE NaT

Row(raw, d) ==
    [_id |-> d._id, merchant |-> d.merchant,
     category |-> BackfillCategory(raw, d),
     amount |-> AsFloat(d.amount),
     date |-> DateColumn(raw, d)]

(* Faulty variant: the rows with NaT dates are kept *)
DropInvalidDates_keep(raw, data) == data

DropInvalidDates(raw, data) ==
    IF HasColumn(raw, "date")
    THEN SelectSeq(data, LAMBDA r : r.date # NaT)
    ELSE data

(* The body of load_data once find() has returned raw *)
Normalize(raw) ==
    IF raw = << >> THEN EmptyDF
    ELSE IF AmountRaises(raw) THEN EmptyDF
    ELSE DropInvalidDates(raw, [i \in 1..Len(raw) |-> Row(raw, raw[i])])

(* Whether load_data ends in its except branch *)
LoadRaises(raw, findOk) == ~findOk \/ (raw # << >> /\ AmountRaises(raw))

(* Faulty variant: the call returns the frame of the previous run *)
LoadResult_stale(raw, findOk) == df

LoadResult(raw, findOk) == IF findOk THEN Normalize(raw) ELSE EmptyDF

----------------------------------------------------------------------------
(* st.cache_data *)

(* Faulty variant: the ttl is not passed to the decorator *)
Expired_never(e) == FALSE

(* Faulty variant: every call misses (the argument hashes differently) *)
CacheHits_none(key) == {}

(* Faulty variant: a result computed on the except path is not stored *)
CachePut_skipRaised(key, value, raised) ==
    IF raised
    THEN {e \in cache : e.key # key}
    ELSE {e \in cache : e.key # key}
            \cup {[key |-> key, value |-> value, raised |-> raised, age |-> 0]}

Expired(e) == e.age >= TTL
CacheHits(key) == {e \in cache : e.key = key /\ ~Expired(e)}
CacheClear == {}                          \* st.cache_data.clear()
CachePut(key, value, raised) ==
    {e \in cache : e.key # key}
        \cup {[key |-> key, value |-> value, raised |-> raised, age |-> 0]}

----------------------------------------------------------------------------
(* Sidebar filters and the filtered table *)

AllMonths == 0                            \* the "All" entry of the month box

HasMonth(r) == r.date.t = "ts"
Month(r) == IF HasMonth(r) THEN r.date.v \div 100 ELSE AllMonths

CategoryOptions(d) ==
    {"All"} \cup {d[i].category : i \in {j \in 1..Len(d) : d[j].category # NaNCategory}}
MonthOptions(d) ==
    {AllMonths} \cup {Month(d[i]) : i \in {j \in 1..Len(d) : HasMonth(d[j])}}

(* Faulty variant: the category filter drops the rows without a category even
   under "All" *)
FilterCategory_dropna(d, c) ==
    SelectSeq(d, LAMBDA r : r.category # NaNCategory /\ (c = "All" \/ r.category = c))

FilterCategory(d, c) ==
    IF c # "All" THEN SelectSeq(d, LAMBDA r : r.category = c) ELSE d
FilterMonth(d, m) ==
    IF m # AllMonths THEN SelectSeq(d, LAMBDA r : HasMonth(r) /\ Month(r) = m) ELSE d

apply_filters(d, c, m) == FilterMonth(FilterCategory(d, c), m)

filtered_df == apply_filters(df, view.category, view.month)

-----------------------------------------------------------------------------
(* show_dashboard: the three metrics and the spending by category *)

(* Series.sum() skips NaN *)
AmountOf(r) == IF r.amount.t = "num" THEN r.amount.v ELSE 0

RECURSIVE SumAmounts(_)
SumAmounts(d) == IF d = << >> THEN 0 ELSE AmountOf(Head(d)) + SumAmounts(Tail(d))

(* The quotient total / count of a float division, kept exact *)
Quotient(n, d) == [num |-> n, den |-> d]
Zero == Quotient(0, 1)

(* Faulty variant: the average is computed without the emptiness guards *)
average_spent_unguarded(d) == Quotient(SumAmounts(d), Len(d))

total_spent(d) == IF d # EmptyDF THEN SumAmounts(d) ELSE 0
num_transactions(d) == Len(d)
average_spent(d) ==
    IF d # EmptyDF
    THEN IF num_transactions(d) > 0
         THEN Quotient(total_spent(d), num_transactions(d))
         ELSE Zero
    ELSE Zero

(* groupby("category") orders its groups by key and drops the NaN key *)
CategoryOrder == << "Food & Beverage", "Groceries", "Transport", "Uncategorized" >>

GroupByCategory(d) ==
    LET keys == SelectSeq(CategoryOrder,
                          LAMBDA c : \E i \in 1..Len(d) : d[i].category = c)
    IN [k \in 1..Len(keys) |->
           [category |-> keys[k],
            total |-> SumAmounts(SelectSeq(d, LAMBDA r : r.category = keys[k]))]]

(* sort_values(ascending=False) *)
RECURSIVE InsertByTotal(_, _)
InsertByTotal(g, sorted) ==
    IF sorted = << >> THEN << g >>
    ELSE IF g.total > Head(sorted).total THEN << g >> \o sorted
    ELSE << Head(sorted) >> \o InsertByTotal(g, Tail(sorted))

RECURSIVE SortByTotalDesc(_)
SortByTotalDesc(gs) ==
    IF gs = << >> THEN << >>
    ELSE InsertByTotal(Head(gs), SortByTotalDesc(Tail(gs)))

(* Faulty variant: the groups are charted in key order, sort_values left out *)
category_totals_unsorted(d) == GroupByCategory(d)

category_totals(d) ==
    IF d # EmptyDF THEN SortByTotalDesc(GroupByCategory(d)) ELSE << >>

----------------------------------------------------------------------------
(* show_remove_expense_form: the ten most recent expenses *)

(* r sorts before s under sort_values(by="date", ascending=False): later
   dates first, NaT last *)
MoreRecent(r, s) ==
    /\ r.date.t = "ts"
    /\ (s.date.t # "ts" \/ r.date.v > s.date.v)

RECURSIVE InsertByDate(_, _)
InsertByDate(r, sorted) ==
    IF sorted = << >> THEN << r >>
    ELSE IF MoreRecent(r, Head(sorted)) THEN << r >> \o sorted
    ELSE << Head(sorted) >> \o InsertByDate(r, Tail(sorted))

RECURSIVE SortByDateDesc(_)
SortByDateDesc(d) ==
    IF d = << >> THEN << >>
    ELSE InsertByDate(d[Len(d)], SortByDateDesc(SubSeq(d, 1, Len(d) - 1)))

FirstN(s, n) == SubSeq(s, 1, IF Len(s) < n THEN Len(s) ELSE n)

(* Faulty variant: head(10) is left out *)
recent_expenses_all(d) == SortByDateDesc(d)

recent_expenses(d) == FirstN(SortByDateDesc(d), HeadCount)

(* format_func calls row["date"].strftime, which NaT does not support *)
FormatRaises(recent) == \E i \in 1..Len(recent) : recent[i].date = NaT

-----------------------------------------------------------------------------
(* The page of a run *)

(* The parts of the page a run over the frame d draws.  An empty frame gets
   the add form alone (lines 198-200).  Otherwise the sidebar boxes, the
   dashboard, the table and the add form are drawn, and then the remove
   form, whose selectbox labels its options with format_func: over a row
   whose date is NaT it raises and the run ends there.  (The trend chart of
   line 149 is not followed: should resample raise over an index that is
   all NaT, the run would end before the add form as well.) *)
Offered(d) ==
    IF d = EmptyDF THEN {"add"}
    ELSE IF FormatRaises(recent_expenses(d))
         THEN {"filters", "dashboard", "details", "add"}
         ELSE {"filters", "dashboard", "details", "add", "remove"}

(* What a run renders: the add form alone, or the dashboard under the
   selected filters.  A selectbox keeps its value across reruns while the
   value is still among its options, and falls back to "All" otherwise. *)
NoView == [shown |-> "none", forms |-> {}, category |-> "All", month |-> AllMonths]
Page(d, c, m) ==
    IF d = EmptyDF
    THEN [shown |-> "add_only", forms |-> Offered(d),
          category |-> "All", month |-> AllMonths]
    ELSE [shown |-> "dashboard", forms |-> Offered(d),
          category |-> IF c \in CategoryOptions(d) THEN c ELSE "All",
          month |-> IF m \in MonthOptions(d) THEN m ELSE AllMonths]

(* The page of a run that ended in st.rerun(): it is replaced at once by
   the page of the next run, the widgets keep their values *)
Rerunning(page) == [page EXCEPT !.shown = "rerun"]

----------------------------------------------------------------------------
(* The collection *)

new_receipt(merchant, category, amount, date) ==
    [_id |-> nextId, merchant |-> merchant, category |-> category,
     amount |-> Num(amount), date |-> Day(date)]

(* Faulty variant: delete_one with a filter that matches every document *)
DeleteOne_first(id) == Tail(store)

(* Faulty variant: the filter of delete_one is inverted *)
DeleteOne_others(id) == SelectSeq(store, LAMBDA d : d._id = id)

InsertOne(doc) == Append(store, doc)
DeleteOne(id) == SelectSeq(store, LAMBDA d : d._id # id)

(* DeleteResult.deleted_count of delete_one({"_id": id}) *)
DeletedCount(id) == IF id \in Ids(store) THEN 1 ELSE 0

----------------------------------------------------------------------------
(* The state after the server process has started, before the first run *)

NoForm == [form |-> "none", merchant |-> "<none>", amount |-> 0,
           id |-> 0, deleted |-> 0]

NoWrite == [op |-> "none", id |-> 0, merchant |-> "", amount |-> 0,
            before |-> EmptyDF, clean |-> TRUE]

Init ==
    /\ store \in {SubSeq_ids(ids) : ids \in SUBSET LegacyIds}
    /\ nextId = Len(LegacyDocs) + 1
    /\ collection = NoHandle
    /\ cache = {}
    /\ df = EmptyDF
    /\ pc = "connect"
    /\ view = NoView
    /\ notice = "none"
    /\ storeCalls = << >>
    /\ journal = NoWrite
    /\ submitted = NoForm

(* Faulty variant: the failure is reported but st.stop() is missing *)
AfterConnectFailure_proceed == "load"

(* Where the run goes when the URI is missing or the ping fails: st.stop() *)
AfterConnectFailure == "stopped"

(* collection = get_database_connection(): st.cache_resource returns the
   handle of an earlier run; otherwise the URI is read from the secrets and
   the server is pinged, and st.stop() ends the run when either fails. *)
Connect(secretFound, pingOk) ==
    /\ pc = "connect"
    /\ IF collection # NoHandle
       THEN /\ pc' = "load"
            /\ storeCalls' = << >>
            /\ UNCHANGED <<collection, notice>>
       ELSE IF ~secretFound
       THEN /\ pc' = AfterConnectFailure
            /\ notice' = "config_error"
            /\ storeCalls' = << >>
            /\ UNCHANGED collection
       ELSE IF ~pingOk
       THEN /\ pc' = AfterConnectFailure
            /\ notice' = "connection_error"
            /\ storeCalls' = << "ping" >>
            /\ UNCHANGED collection
       ELSE /\ pc' = "load"
            /\ collection' = CollectionHandle
            /\ notice' = "none"
            /\ storeCalls' = << "ping" >>
    /\ submitted' = NoForm
    /\ UNCHANGED <<store, nextId, cache, df, view, journal>>

(* df = load_data(collection): the cached value while an entry of that key
   is younger than the TTL, otherwise find() and the normalisation, whose
   result (the empty frame of the except branch included) is cached.  A
   hit replays the st.error the cached call showed. *)
LoadData(findOk) ==
    /\ pc = "load"
    /\ LET key == LoadDataArg
           hits == CacheHits(key)
       IN IF hits # {}
          THEN /\ df' = (CHOOSE e \in hits : TRUE).value
               /\ storeCalls' = << >>
               /\ notice' = IF (CHOOSE e \in hits : TRUE).raised
                            THEN "load_error" ELSE "none"
               /\ UNCHANGED cache
          ELSE /\ df' = LoadResult(store, findOk)
               /\ cache' = CachePut(key, LoadResult(store, findOk),
                                    LoadRaises(store, findOk))
               /\ storeCalls' = << "find" >>
               /\ notice' = IF LoadRaises(store, findOk) THEN "load_error" ELSE "none"
    /\ pc' = "main"
    /\ submitted' = NoForm
    /\ UNCHANGED <<store, nextId, collection, view, journal>>

(* A run in which no form was submitted: the page is drawn under the
   sidebar selection (c, m).  The user can have changed the selection only
   on a page that showed the two boxes; a run started by st.rerun(), or from
   a page without the boxes, runs with the values the widgets had. *)
Render(c, m) ==
    /\ pc = "main"
    /\ c \in CategoryOptions(df)
    /\ m \in MonthOptions(df)
    /\ view.shown # "dashboard" =>
          /\ c = Page(df, view.category, view.month).category
          /\ m = Page(df, view.category, view.month).month
    /\ view' = Page(df, c, m)
    /\ pc' = "idle"
    /\ storeCalls' = << >>
    /\ notice' = IF df # EmptyDF /\ FormatRaises(recent_expenses(df))
                 THEN "exception" ELSE notice
    /\ submitted' = NoForm
    /\ UNCHANGED <<store, nextId, collection, cache, df, journal>>

(* Faulty variant: the check forgets the amount *)
Rejected_merchantOnly(merchant, amount) == merchant = ""

(* Faulty variant: the check lets a zero amount through *)
Rejected_negativeOnly(merchant, amount) == merchant = "" \/ amount < 0

(* Whether the add form lets the submission through (lines 94-96) *)
Rejected(merchant, amount) == merchant = "" \/ amount <= 0

(* Faulty variant: the write path forgets st.cache_data.clear() *)
AfterWrite_keep == cache

(* What the two write paths do to the cache after a successful write *)
AfterWrite == CacheClear

(* Faulty variant: the cache is cleared before the write is known to have succeeded *)
AfterFailedWrite_clear == CacheClear

(* What a write that raised leaves in the cache: the exception leaves the
   script before st.cache_data.clear() *)
AfterFailedWrite == cache

(* A run in which the add form was submitted *)
AddExpense(merchant, category, amount, date, insertOk) ==
    /\ pc = "main"
    /\ "add" \in Offered(df)
    /\ IF Rejected(merchant, amount)
       THEN /\ notice' = "validation_error"
            /\ storeCalls' = << >>
            /\ pc' = "idle"
            /\ view' = Page(df, view.category, view.month)
            /\ UNCHANGED <<store, nextId, cache, journal>>
       ELSE IF ~insertOk
       THEN /\ notice' = "exception"
            /\ storeCalls' = << "insert_one" >>
            /\ pc' = "idle"
            /\ view' = Page(df, view.category, view.month)
            /\ cache' = AfterFailedWrite
            /\ UNCHANGED <<store, nextId, journal>>
       ELSE /\ nextId <= Len(LegacyDocs) + MaxAdds
            /\ store' = InsertOne(new_receipt(merchant, category, amount, date))
            /\ nextId' = nextId + 1
            /\ cache' = AfterWrite
            /\ notice' = "added"
            /\ storeCalls' = << "insert_one" >>
            /\ pc' = "connect"
            /\ view' = Rerunning(Page(df, view.category, view.month))
            /\ journal' = [op |-> "add", id |-> nextId, merchant |-> merchant,
                           amount |-> amount, before |-> df,
                           clean |-> notice # "load_error"]
    /\ submitted' = [NoForm EXCEPT !.form = "add", !.merchant = merchant,
                                   !.amount = amount]
    /\ UNCHANGED <<collection, df>>

(* A run in which "Remove Selected Expense" was clicked: the form exists
   only on the dashboard page and offers the ids of recent_expenses *)
RemoveExpense(selected_id, deleteOk) ==
    /\ pc = "main"
    /\ "remove" \in Offered(df)
    /\ selected_id \in Ids(recent_expenses(df))
    /\ IF ~deleteOk
       THEN /\ notice' = "exception"
            /\ storeCalls' = << "delete_one" >>
            /\ pc' = "idle"
            /\ cache' = AfterFailedWrite
            /\ view' = Page(df, view.category, view.month)
            /\ submitted' = [NoForm EXCEPT !.form = "remove", !.id = selected_id]
            /\ UNCHANGED <<store, journal>>
       ELSE /\ store' = DeleteOne(selected_id)
            /\ cache' = AfterWrite
            /\ notice' = "removed"
            /\ storeCalls' = << "delete_one" >>
            /\ pc' = "connect"
            /\ view' = Rerunning(Page(df, view.category, view.month))
            /\ journal' = IF journal.op = "add" /\ journal.id = selected_id
                          THEN [journal EXCEPT !.op = "undo"]
                          ELSE NoWrite
            /\ submitted' = [NoForm EXCEPT !.form = "remove", !.id = selected_id,
                                           !.deleted = DeletedCount(selected_id)]
    /\ UNCHANGED <<nextId, collection, df>>

(* The user interacts with the page (or reloads it): the script runs again *)
Rerun ==
    /\ pc \in {"idle", "stopped"}
    /\ pc' = "connect"
    /\ storeCalls' = << >>
    /\ submitted' = NoForm
    /\ UNCHANGED <<store, nextId, collection, cache, df, view, notice, journal>>

(* Time passes between two runs: every cache entry ages.  Ages are followed
   until they have passed the TTL. *)
Older(e) == [e EXCEPT !.age = e.age + TickStep]

Tick ==
    /\ pc = "idle"
    /\ cache # {}
    /\ \A e \in cache : e.age <= TTL
    /\ cache' = {Older(e) : e \in cache}
    /\ storeCalls' = << >>
    /\ submitted' = NoForm
    /\ UNCHANGED <<store, nextId, collection, df, pc, view, notice, journal>>

Next ==
    \/ \E secretFound \in BOOLEAN, pingOk \in BOOLEAN : Connect(secretFound, pingOk)
    \/ \E findOk \in BOOLEAN : LoadData(findOk)
    \/ \E c \in CategoryOptions(df), m \in MonthOptions(df) : Render(c, m)
    \/ \E merchant \in MerchantInputs, category \in CategoryInputs,
          amount \in AmountInputs, date \in DateInputs, insertOk \in BOOLEAN :
            AddExpense(merchant, category, amount, date, insertOk)
    \/ \E selected_id \in Ids(df), deleteOk \in BOOLEAN :
            RemoveExpense(selected_id, deleteOk)
    \/ Rerun
    \/ Tick

Spec == Init /\ [][Next]_vars

(* The collection lives on a MongoDB server that other clients reach too (a
   second browser session, the database console): one of them deletes a
   document between two runs of this session, whose cached frame goes stale. *)
ExternalDelete(id) ==
    /\ pc = "idle"
    /\ id \in Ids(store)
    /\ store' = DeleteOne(id)
    /\ storeCalls' = << >>
    /\ submitted' = NoForm
    /\ UNCHANGED <<nextId, collection, cache, df, pc, view, notice, journal>>

(* A session that views and removes, next to the other client *)
NextShared ==
    \/ \E secretFound \in BOOLEAN, pingOk \in BOOLEAN : Connect(secretFound, pingOk)
    \/ \E findOk \in BOOLEAN : LoadData(findOk)
    \/ \E c \in CategoryOptions(df), m \in MonthOptions(df) : Render(c, m)
    \/ \E selected_id \in Ids(df), deleteOk \in BOOLEAN :
            RemoveExpense(selected_id, deleteOk)
    \/ Rerun
    \/ Tick
    \/ \E id \in Ids(store) : ExternalDelete(id)

SpecShared == Init /\ [][NextShared]_vars

(* The session over a collection that other tools have written to *)
InitForeign ==
    /\ store \in {SelectSeq(ForeignDocs, LAMBDA d : d._id \in ids) :
                     ids \in SUBSET Ids(ForeignDocs)}
    /\ nextId = Len(LegacyDocs) + 1
    /\ collection = NoHandle
    /\ cache = {}
    /\ df = EmptyDF
    /\ pc = "connect"
    /\ view = NoView
    /\ notice = "none"
    /\ storeCalls = << >>
    /\ journal = NoWrite
    /\ submitted = NoForm

SpecForeign == InitForeign /\ [][Next]_vars

(* The session over the large collection *)
InitMany ==
    /\ store = ManyDocs
    /\ nextId = Len(LegacyDocs) + 1
    /\ collection = NoHandle
    /\ cache = {}
    /\ df = EmptyDF
    /\ pc = "connect"
    /\ view = NoView
    /\ notice = "none"
    /\ storeCalls = << >>
    /\ journal = NoWrite
    /\ submitted = NoForm

(* Documents deleted so far from the large collection *)
Removed == Len(ManyDocs) - Len(store)

(* A session that views and removes *)
NextMany ==
    \/ \E secretFound \in BOOLEAN, pingOk \in BOOLEAN : Connect(secretFound, pingOk)
    \/ \E findOk \in BOOLEAN : LoadData(findOk)
    \/ \E c \in CategoryOptions(df), m \in MonthOptions(df) : Render(c, m)
    \/ \E selected_id \in Ids(df), deleteOk \in BOOLEAN :
            Removed < MaxRemoves /\ RemoveExpense(selected_id, deleteOk)
    \/ Rerun
    \/ Tick

SpecMany == InitMany /\ [][NextMany]_vars

----------------------------------------------------------------------------
(* Properties *)

AppAdded(doc) == doc._id \notin LegacyIds

(* Frame d reflects the writes that led to collection s: no removed
   document is still in d, and every document this application added is *)
Reflects(d, s) ==
    /\ Ids(d) \subseteq Ids(s)
    /\ \A i \in 1..Len(s) : AppAdded(s[i]) =>
          \E j \in 1..Len(d) : /\ d[j]._id = s[i]._id
                               /\ d[j].merchant = s[i].merchant
                               /\ d[j].amount = s[i].amount

(* C1, as amended: a load_data call that finds the cache cleared calls
   find() on the collection, and unless the fetch or the normalisation
   raises, the frame it returns reflects every write made before the clear:
   each added record is in it, no removed record is. *)
C1_LoadAfterInvalidate ==
    [][(pc = "load" /\ cache = {} /\ pc' = "main") =>
          /\ storeCalls' = << "find" >>
          /\ notice' # "load_error" => Reflects(df', store)]_vars

(* C1 as claimed: the frame reflects every earlier write, whatever the load
   met. *)
C1_Original ==
    [][(pc = "load" /\ cache = {} /\ pc' = "main") =>
          /\ storeCalls' = << "find" >>
          /\ Reflects(df', store)]_vars

(* A load that followed a clear and returned an added record *)
C1_Witness ==
    /\ pc = "main"
    /\ storeCalls = << "find" >>
    /\ notice = "none"
    /\ journal.op = "add"
    /\ journal.id \in Ids(df)

(* C2, as amended: a step that changes the collection issues that one write
   and nothing else, clears the cache and starts a new run; until the load
   of that run nothing but the connection lookup happens, and that load
   fetches from the collection and, unless it raises, reflects the write. *)
C2_WriteThenInvalidate ==
    [][/\ store' # store =>
            /\ storeCalls' \in {<< "insert_one" >>, << "delete_one" >>}
            /\ cache' = {}
            /\ pc' = "connect"
            /\ notice' \in {"added", "removed"}
       /\ notice' \in {"added", "removed"} =>
            /\ pc' \in {"connect", "load"}
            /\ cache' = {}
       /\ (notice \in {"added", "removed"} /\ pc = "load") =>
            /\ storeCalls' = << "find" >>
            /\ notice' # "load_error" => Reflects(df', store)]_vars

(* C2 as claimed: the first load after a write reflects it, whatever the
   load met. *)
C2_Original ==
    [][(notice \in {"added", "removed"} /\ pc = "load") =>
            /\ storeCalls' = << "find" >>
            /\ Reflects(df', store)]_vars

(* The run that follows a delete is about to load, the cache cleared *)
C2_Witness ==
    /\ notice = "removed"
    /\ pc = "load"
    /\ cache = {}
    /\ storeCalls = << >>

(* C3: every cache entry is keyed by a plain value, and load_data is never
   called with the live collection handle. *)
IsPlainValue(k) == k.kind = "plain"

C3_PlainCacheKey ==
    /\ \A e \in cache : IsPlainValue(e.key)
    /\ pc = "load" => IsPlainValue(LoadDataArg)

(* C4: a submission with an empty merchant or an amount that is not greater
   than 0 shows the validation error and changes nothing: no call reaches
   the collection, the collection and the cache are as before. *)
C4_ValidationRejects ==
    [][(submitted'.form = "add"
          /\ (submitted'.merchant = "" \/ ~(submitted'.amount > 0))) =>
            /\ notice' = "validation_error"
            /\ storeCalls' = << >>
            /\ store' = store
            /\ nextId' = nextId
            /\ cache' = cache]_vars

(* A rejected submission on a page that had data and a cache entry *)
C4_Witness ==
    /\ notice = "validation_error"
    /\ submitted.merchant = "Tim Hortons"
    /\ submitted.amount = 0
    /\ pc = "idle"
    /\ cache # {}
    /\ store # << >>

(* C5: a collection whose records all have a non-empty merchant and an
   amount greater than 0 stays such a collection under every step. *)
ValidRecord(doc) ==
    /\ doc.merchant # ""
    /\ doc.amount.t = "num"
    /\ doc.amount.v > 0
AllValid(s) == \A i \in 1..Len(s) : ValidRecord(s[i])

C5_PersistedRecordsValid == [][AllValid(store) => AllValid(store')]_vars

(* A valid collection that holds a record added by the form next to an
   older one *)
C5_Witness ==
    /\ AllValid(store)
    /\ Len(store) >= 2
    /\ \E i \in 1..Len(store) : AppAdded(store[i])

(* C6: an insert_one or delete_one that raises leaves the cache (and the
   collection) as it was. *)
C6_FailedWriteKeepsCache ==
    [][(storeCalls' \in {<< "insert_one" >>, << "delete_one" >>}
          /\ notice' = "exception") =>
            /\ cache' = cache
            /\ store' = store]_vars

(* A delete that raised while the cache held the frame *)
C6_Witness ==
    /\ notice = "exception"
    /\ storeCalls = << "delete_one" >>
    /\ \E e \in cache : e.value = df /\ df # EmptyDF

(* C7, as amended: when no load involved raises, the frame loaded after a
   valid add holds the records of the frame shown before the add (same _id,
   merchant, amount and date) and exactly one more, with the merchant and
   the amount that were entered; and the frame loaded after removing that
   record is equal to the frame shown before the add. *)
SameRecord(r, q) ==
    /\ r._id = q._id
    /\ r.merchant = q.merchant
    /\ r.amount = q.amount
    /\ r.date = q.date

AddedOnTop(before, after) ==
    /\ journal.id \notin Ids(before)
    /\ Ids(after) = Ids(before) \cup {journal.id}
    /\ Len(after) = Len(before) + 1
    /\ \A i \in 1..Len(before) : \E j \in 1..Len(after) : SameRecord(before[i], after[j])
    /\ \A j \in 1..Len(after) : after[j]._id = journal.id =>
          /\ after[j].merchant = journal.merchant
          /\ after[j].amount = Num(journal.amount)

C7_RoundTrip ==
    (pc = "main" /\ journal.clean /\ notice # "load_error") =>
        /\ journal.op = "add" => AddedOnTop(journal.before, df)
        /\ journal.op = "undo" => df = journal.before

(* C7 as claimed: the same, whatever the loads met. *)
C7_Original ==
    pc = "main" =>
        /\ journal.op = "add" => AddedOnTop(journal.before, df)
        /\ journal.op = "undo" => df = journal.before

(* The frame loaded after an add and the removal of the added record, the
   page having shown data before the add *)
C7_Witness ==
    /\ pc = "main"
    /\ journal.op = "undo"
    /\ journal.clean
    /\ notice # "load_error"
    /\ storeCalls = << "find" >>
    /\ journal.before # EmptyDF

(* C8, as amended: a load leaves the collection unchanged and never returns
   a record whose date does not parse; unless the load raises, it returns
   every record whose date parses. *)
DateParses(doc) == doc.date.t = "date"

C8_DateDrop ==
    [][(pc = "load" /\ pc' = "main") =>
          /\ store' = store
          /\ \A i \in 1..Len(store) :
                ~DateParses(store[i]) => store[i]._id \notin Ids(df')
          /\ notice' # "load_error" =>
                \A i \in 1..Len(store) :
                    DateParses(store[i]) => store[i]._id \in Ids(df')]_vars

(* C8 as claimed: the other records are returned, whatever the load met. *)
C8_Original ==
    [][(pc = "load" /\ pc' = "main"
          /\ \E i \in 1..Len(store) : ~DateParses(store[i])) =>
          /\ store' = store
          /\ \A i \in 1..Len(store) :
                IF DateParses(store[i])
                THEN store[i]._id \in Ids(df')
                ELSE store[i]._id \notin Ids(df')]_vars

(* A fetch that dropped a record with an unparseable date, kept another,
   and left both in the collection *)
C8_Witness ==
    /\ pc = "main"
    /\ storeCalls = << "find" >>
    /\ df # EmptyDF
    /\ \E i \in 1..Len(store) : ~DateParses(store[i]) /\ store[i]._id \notin Ids(df)

(* C9: every record of every loaded frame has a category value: a stored
   record without the field shows "Uncategorized". *)
C9_CategoryBackfilled ==
    \A i \in 1..Len(df) : df[i].category # NaNCategory

(* C10: over the loaded frame, for every category and month of the two
   boxes: category-then-month equals month-then-category, "All" changes
   nothing, and apply_filters of a filtered frame under "All"/"All" is that
   frame. *)
C10_FiltersCommute ==
    \A c \in CategoryOptions(df) \cup CategoryInputs, m \in MonthOptions(df) :
        /\ FilterMonth(FilterCategory(df, c), m) = FilterCategory(FilterMonth(df, m), c)
        /\ FilterCategory(df, "All") = df
        /\ FilterMonth(df, AllMonths) = df
        /\ FilterCategory(FilterMonth(df, m), "All") = FilterMonth(df, m)
        /\ FilterMonth(FilterCategory(df, c), AllMonths) = FilterCategory(df, c)
        /\ apply_filters(apply_filters(df, c, m), "All", AllMonths) = apply_filters(df, c, m)

(* A page filtered by a category and a month that keep some rows of the
   frame and drop others, one of the rows having no category *)
C10_Witness ==
    /\ pc = "idle"
    /\ view.shown = "dashboard"
    /\ view.category # "All"
    /\ view.month # AllMonths
    /\ filtered_df # << >>
    /\ Len(FilterCategory(df, view.category)) < Len(df)
    /\ Len(filtered_df) < Len(FilterCategory(df, view.category))
    /\ \E i \in 1..Len(df) : df[i].category = NaNCategory

(* ---------------------------------------------------------------- C11 *)
(* C11: when the connection configuration is absent or the connectivity
   check fails, the run halts at startup: get_database_connection ends the
   run, the run issues no find, insert_one or delete_one, and no step of any
   run (load, page, form handler) is taken without a store handle. *)
C11_HaltsWithoutHandle ==
    [][/\ (pc = "connect" /\ collection' = NoHandle) =>
              /\ pc' = "stopped"
              /\ notice' \in {"config_error", "connection_error"}
              /\ \A i \in 1..Len(storeCalls') : storeCalls'[i] = "ping"
              /\ store' = store
       /\ pc = "stopped" => pc' = "connect" /\ storeCalls' = << >>
       /\ collection = NoHandle => pc \in {"connect", "stopped"}
       /\ ("find" \in {storeCalls'[i] : i \in 1..Len(storeCalls')}
            \/ "insert_one" \in {storeCalls'[i] : i \in 1..Len(storeCalls')}
            \/ "delete_one" \in {storeCalls'[i] : i \in 1..Len(storeCalls')})
              => collection # NoHandle
      ]_vars

(* A run halted by a failed ping, over a store that holds records *)
C11_Witness ==
    /\ pc = "stopped"
    /\ notice = "connection_error"
    /\ storeCalls = << "ping" >>
    /\ collection = NoHandle
    /\ store # << >>

(* ---------------------------------------------------------------- C12 *)
(* C12: a remove that the store accepts deletes exactly the document with
   the selected _id and leaves every other document, and their order,
   unchanged; when no document has that _id (it was deleted by another
   client while the frame was stale) the remove still succeeds and the store
   is unchanged. *)
C12_RemoveExactlyOne ==
    [][(submitted'.form = "remove" /\ notice' = "removed") =>
          LET id == submitted'.id
              kept == {i \in 1..Len(store) : store[i]._id # id}
          IN /\ Ids(store') = Ids(store) \ {id}
             /\ Len(store') = Cardinality(kept)
             /\ \A i \in kept : \E j \in 1..Len(store') : store'[j] = store[i]
             /\ \A i, j \in 1..Len(store') :
                   i < j => \E k, l \in kept :
                       k < l /\ store[k] = store'[i] /\ store[l] = store'[j]
             /\ id \notin Ids(store) => store' = store /\ submitted'.deleted = 0
             /\ id \in Ids(store) => submitted'.deleted = 1
      ]_vars

(* A remove of a document that another client had already deleted: it
   reports success, deleted nothing and left the other documents in place *)
C12_Witness ==
    /\ submitted.form = "remove"
    /\ notice = "removed"
    /\ submitted.deleted = 0
    /\ submitted.id \in Ids(df)
    /\ store # << >>

(* ---------------------------------------------------------------- C13 *)
(* C13: with ttl=60, a load_data call made when the cached frame is older
   than the TTL does not use it: it fetches from the store again although
   nothing cleared the cache; and a call answered from the cache returns a
   frame that was fetched at most 60 time units earlier. *)
C13_TtlRefetch ==
    [][(pc = "load" /\ pc' = "main") =>
          /\ (cache # {} /\ \A e \in cache : e.age > TTL) =>
                /\ storeCalls' = << "find" >>
                /\ \A e \in cache' : e.age = 0
          /\ storeCalls' = << >> =>
                \E e \in cache : /\ e.key = LoadDataArg
                                 /\ e.value = df'
                                 /\ e.age <= TTL
      ]_vars

(* A run started from a drawn page, with no write before it, whose load
   fetched again: the cached frame had expired *)
C13_Witness ==
    /\ pc = "main"
    /\ view.shown = "dashboard"
    /\ storeCalls = << "find" >>
    /\ \A e \in cache : e.age = 0
    /\ df # EmptyDF

(* ---------------------------------------------------------------- C14 *)
(* A run that handles a change of the sidebar selection: it started from a
   page that showed the filter boxes, no form was submitted in it, and it
   draws the dashboard under another category or month.  Before its last
   step storeCalls holds what the load_data call of the same run issued. *)
FilterChange ==
    /\ pc = "main" /\ pc' = "idle"
    /\ submitted' = NoForm
    /\ view.shown = "dashboard" /\ view'.shown = "dashboard"
    /\ view'.category # view.category \/ view'.month # view.month

(* C14 as stated: handling a change of filter issues no insert, no delete
   and no fetch, and leaves the store and the cache unchanged. *)
C14_Original ==
    [][FilterChange =>
          /\ storeCalls = << >> /\ storeCalls' = << >>
          /\ store' = store /\ cache' = cache
      ]_vars

(* C14 amended: handling a change of filter issues no insert and no delete
   and leaves the store unchanged; its load_data call fetches only when the
   cached frame has expired, and then stores the fresh frame; otherwise the
   run issues no fetch and leaves the cache unchanged. *)
C14_FilterChangeReadsCache ==
    [][/\ FilterChange =>
             /\ storeCalls \in {<< >>, << "find" >>}
             /\ storeCalls' = << >>
             /\ store' = store /\ cache' = cache
             /\ \E e \in cache : e.key = LoadDataArg /\ e.value = df
             /\ storeCalls = << "find" >> => \A e \in cache : e.age = 0
       /\ (pc = "load" /\ view.shown = "dashboard") =>
             /\ store' = store
             /\ storeCalls' = << "find" >> =>
                   cache # {} /\ \A e \in cache : e.age >= TTL
             /\ storeCalls' # << "find" >> =>
                   storeCalls' = << >> /\ cache' = cache
      ]_vars

(* A page drawn under a category and a month chosen in the boxes, from a
   frame that was served by the cache *)
C14_Witness ==
    /\ pc = "idle"
    /\ view.shown = "dashboard"
    /\ view.category # "All" /\ view.month # AllMonths
    /\ storeCalls = << >>
    /\ \E e \in cache : e.value = df /\ e.age > 0 /\ e.age < TTL

(* ---------------------------------------------------------------- C15 *)
(* The categories of the rows of a table, and the sum of the amounts of the
   first n rows of one category *)
PresentCategories(d) ==
    {d[i].category : i \in 1..Len(d)} \ {NaNCategory}

RECURSIVE CategorySum(_, _, _)
CategorySum(d, c, n) ==
    IF n = 0 THEN 0
    ELSE CategorySum(d, c, n - 1)
            + (IF d[n].category = c /\ d[n].amount.t = "num" THEN d[n].amount.v ELSE 0)

ExampleRows ==
    << [category |-> "Groceries", amount |-> Num(10)],
       [category |-> "Groceries", amount |-> Num(20)],
       [category |-> "Transport", amount |-> Num(5)] >>

(* C15: for every filtered table the dashboard draws, the spending by
   category has one entry for each category present in the table and for no
   other, each entry carries the sum of the amounts of the rows of its
   category, and the entries are in non-increasing order of total; amounts
   10, 20, 5 in categories A, A, B give A: 30 and B: 5. *)
C15_CategoryTotals ==
    (pc = "idle" /\ view.shown = "dashboard") =>
        LET g == category_totals(filtered_df)
        IN /\ {g[i].category : i \in 1..Len(g)} = PresentCategories(filtered_df)
           /\ Len(g) = Cardinality(PresentCategories(filtered_df))
           /\ \A i \in 1..Len(g) :
                 g[i].total = CategorySum(filtered_df, g[i].category, Len(filtered_df))
           /\ \A i \in 1..Len(g), j \in 1..Len(g) : i < j => g[i].total >= g[j].total
           /\ category_totals(ExampleRows) =
                 << [category |-> "Groceries", total |-> 30],
                    [category |-> "Transport", total |-> 5] >>

(* A dashboard over four rows, one of them without a category: three
   entries, listed by total (3, 2, 1) and not by name *)
C15_Witness ==
    /\ pc = "idle" /\ view.shown = "dashboard"
    /\ Len(filtered_df) = 4
    /\ \E i \in 1..Len(filtered_df) : filtered_df[i].category = NaNCategory
    /\ category_totals(filtered_df) =
          << [category |-> "Food & Beverage", total |-> 3],
             [category |-> "Transport", total |-> 2],
             [category |-> "Groceries", total |-> 1] >>

(* ---------------------------------------------------------------- C16 *)
(* C16: over an empty filtered table (a category and a month that share no
   row) the dashboard shows total 0, count 0 and average 0 and divides by
   nothing; over a non-empty one the count is the number of rows, the total
   is the sum of their amounts and the average is the total divided by the
   count. *)
C16_Metrics ==
    (pc = "idle" /\ view.shown = "dashboard") =>
        LET f == filtered_df
            avg == average_spent(f)
        IN /\ avg.den # 0
           /\ f = << >> =>
                 /\ total_spent(f) = 0
                 /\ num_transactions(f) = 0
                 /\ avg.num = 0
           /\ f # << >> =>
                 /\ num_transactions(f) = Cardinality(DOMAIN f)
                 /\ total_spent(f) =
                       CategorySum(f, "Groceries", Len(f))
                       + CategorySum(f, "Transport", Len(f))
                       + CategorySum(f, "Food & Beverage", Len(f))
                       + CategorySum(f, "Uncategorized", Len(f))
                       + CategorySum(f, NaNCategory, Len(f))
                 /\ avg.num * num_transactions(f) = total_spent(f) * avg.den

(* A dashboard drawn under a category and a month that share no row *)
C16_Witness ==
    /\ pc = "idle" /\ view.shown = "dashboard"
    /\ view.category # "All" /\ view.month # AllMonths
    /\ df # EmptyDF
    /\ filtered_df = << >>

(* ---------------------------------------------------------------- C17 *)
(* C17: the page is gated by the loaded frame: a run over an empty frame
   offers the add form alone, so that it can issue no remove and no change
   of filter; a run over a non-empty frame offers the dashboard, the
   filters, the add form and the remove form. *)
C17_ViewGatedBySnapshot ==
    [][pc = "main" =>
          IF df = EmptyDF
          THEN /\ view'.forms = {"add"}
               /\ submitted'.form # "remove"
               /\ "delete_one" \notin {storeCalls'[i] : i \in 1..Len(storeCalls')}
               /\ view'.category = "All" /\ view'.month = AllMonths
          ELSE {"dashboard", "filters", "add", "remove"} \subseteq view'.forms
      ]_vars

(* ---------------------------------------------------------------- C18 *)
(* What makes astype(float) raise, read off the stored documents: an amount
   that is text, or no amount field in any document *)
StoreBreaksLoad ==
    /\ store # << >>
    /\ \/ \E i \in 1..Len(store) : store[i].amount.t = "text"
       \/ \A i \in 1..Len(store) : store[i].amount.t = "absent"

(* The failure as the claim words it: some document has an amount that is
   text, or has no amount *)
StoreHasBadAmount ==
    \E i \in 1..Len(store) : store[i].amount.t \in {"text", "absent"}

(* C18 as stated: load_data never fails the run; when find() or the
   normalisation raises, as it does when one stored document has a
   non-numeric or a missing amount, it returns an empty frame, leaves the
   store unchanged and caches the empty frame like any result. *)
C18_Original ==
    [][(pc = "load") =>
          /\ pc' = "main"
          /\ store' = store
          /\ (storeCalls' = << "find" >> /\ StoreHasBadAmount) =>
                /\ notice' = "load_error"
                /\ df' = EmptyDF
                /\ \E e \in cache' : e.value = EmptyDF /\ e.raised
      ]_vars

(* C18 amended: load_data never fails the run: when find() or the
   normalisation raises (one stored document has a non-numeric amount, or
   no stored document has an amount) it returns an empty frame and leaves
   the store unchanged, and the empty frame is stored in the cache like any
   result: the later calls return it without a find, until the cache is
   cleared or the entry expires, although the store is not empty.  A
   document without an amount beside documents that have one does not make
   the load raise: it is loaded with the amount NaN. *)
C18_LoadFailureCached ==
    [][(pc = "load") =>
          /\ pc' = "main"
          /\ store' = store
          /\ storeCalls' = << "find" >> =>
                /\ (StoreBreaksLoad => notice' = "load_error")
                /\ (notice' = "none" /\ ~StoreBreaksLoad) =>
                      \A i \in 1..Len(store) :
                          (store[i].amount.t = "absent" /\ store[i].date.t = "date") =>
                              \E j \in 1..Len(df') :
                                  df'[j]._id = store[i]._id /\ df'[j].amount = NaN
          /\ (storeCalls' = << "find" >> /\ notice' = "load_error") =>
                /\ df' = EmptyDF
                /\ \E e \in cache' :
                      /\ e.key = LoadDataArg /\ e.value = EmptyDF
                      /\ e.raised /\ e.age = 0
          /\ (\E e \in cache : e.key = LoadDataArg /\ e.raised /\ e.age < TTL) =>
                /\ storeCalls' = << >>
                /\ df' = EmptyDF
                /\ cache' = cache
      ]_vars

(* A run served from the cache with the empty frame of a failed load, over
   a store that is not empty *)
C18_Witness ==
    /\ pc = "main"
    /\ storeCalls = << >>
    /\ notice = "load_error"
    /\ df = EmptyDF
    /\ StoreBreaksLoad
    /\ \E e \in cache : e.raised /\ e.age > 0

(* ---------------------------------------------------------------- C19 *)
(* Rows of d dated later than the row r, and rows other than r dated at
   least as late *)
LaterThan(d, r) == {j \in 1..Len(d) : d[j].date.v > r.date.v}
NotEarlierThan(d, r) == {j \in 1..Len(d) : d[j] # r /\ d[j].date.v >= r.date.v}

(* C19: a remove targets a row of the current frame that is among its ten
   most recent by date, counted over the whole frame and not over the
   filtered table: every row that is surely among those ten is an option of
   the remove form whatever the sidebar selection is, and a document outside
   the ten is never deleted by the remove of that run. *)
C19_RemoveAmongTenRecent ==
    [][/\ submitted'.form = "remove" =>
             /\ \E j \in 1..Len(df) :
                   /\ df[j]._id = submitted'.id
                   /\ Cardinality(LaterThan(df, df[j])) < HeadCount
             /\ \A j \in 1..Len(df) :
                   Cardinality(LaterThan(df, df[j])) >= HeadCount =>
                       (df[j]._id \in Ids(store) => df[j]._id \in Ids(store'))
       /\ (pc = "main" /\ "remove" \in Offered(df)) =>
             \A j \in 1..Len(df) :
                 Cardinality(NotEarlierThan(df, df[j])) < HeadCount =>
                     df[j]._id \in Ids(recent_expenses(df))
      ]_vars

(* A remove, from a frame of more than ten rows and under a category
   filter, of a row that the filtered table does not show *)
C19_Witness ==
    /\ submitted.form = "remove"
    /\ notice = "removed"
    /\ Len(df) > HeadCount
    /\ view.category # "All"
    /\ submitted.id \in Ids(df)
    /\ submitted.id \notin Ids(apply_filters(df, view.category, view.month))

====
